---- MODULE Spec2Model ----
(***************************************************************************)
(* Three hash sets with chaining: HashSetSequential (no locks),            *)
(* HashSetStriped (a fixed array of shard mutexes, a table that doubles)   *)
(* and HashSetRefinable (an atomically published TableState holding the    *)
(* buckets and one mutex per bucket, growing by a factor of four).         *)
(*                                                                         *)
(* Every shared-memory access of the two concurrent variants is one step   *)
(* of the thread that makes it: a mutex acquisition, the scan of a bucket, *)
(* the change of a bucket, the update of the atomic counter, a load or a   *)
(* store of the TableState handle.  The sequential variant has no          *)
(* interleaving, so each of its operations is one step.                    *)
(***************************************************************************)
EXTENDS Integers, Sequences, FiniteSets, TLC

\* ------------------------------------------------------------------ bounds
NumThreads == 2      \* worker threads sharing one set
MaxCalls == 2        \* calls the workers of the free workload make in all
MaxInitCap == 2      \* largest initial_capacity tried
TotalValues == 6     \* values added in all in the disjoint-ranges workload
SingleLen == 4       \* distinct elements of the single-threaded comparison
MaxCount == 9        \* largest `count` the harness is run with
MaxDoublings == 3    \* doublings of the capacity the index arithmetic is tried for
MaxElem == 15        \* largest element the index arithmetic is tried for

\* ------------------------------------------------------- program constants
kLoadFactorThreshold == 4

Threads == 1..NumThreads
InitCaps == 1..MaxInitCap
OpNames == {"Add", "Remove", "Contains"}
Variants == {"sequential", "striped", "refinable"}
NoThread == 0
NoState == 0

\* ------------------------------------------------------------ pure helpers

\* std::hash<int> of the standard library the harness is built with maps a
\* non-negative int to itself.
Hash(e) == e

\* (mutation) only the first entry of the bucket is compared
FindFirstOnly(bucket, e) == bucket # <<>> /\ bucket[1] = e

\* (mutation) the search stops one entry before the end
FindButLast(bucket, e) == \E k \in 1..(Len(bucket) - 1) : bucket[k] = e

\* std::find(bucket.begin(), bucket.end(), elem) != bucket.end()
Find(bucket, e) == \E k \in 1..Len(bucket) : bucket[k] = e

\* (mutation) the loop stops at the first entry that differs from e
RemovePosOther(bucket, e) ==
    IF \E k \in 1..Len(bucket) : bucket[k] # e
    THEN CHOOSE k \in 1..Len(bucket) :
            /\ bucket[k] # e
            /\ \A j \in 1..(k - 1) : bucket[j] = e
    ELSE 0

\* the loop of Remove: the position of the first entry equal to e (the
\* iterator the loop stops at), 0 when the loop runs to bucket.end()
RemovePos(bucket, e) ==
    IF \E k \in 1..Len(bucket) : bucket[k] = e
    THEN CHOOSE k \in 1..Len(bucket) :
            /\ bucket[k] = e
            /\ \A j \in 1..(k - 1) : bucket[j] # e
    ELSE 0

\* (mutation) the last entry is erased, whichever the iterator points to
EraseLast(bucket, k) == SubSeq(bucket, 1, Len(bucket) - 1)

\* bucket.erase(it)
Erase(bucket, k) == [j \in 1..(Len(bucket) - 1) |->
                        IF j < k THEN bucket[j] ELSE bucket[j + 1]]

\* a table of `capacity` empty buckets; bucket i of the code is table[i + 1]
EmptyTable(capacity) == [j \in 1..capacity |-> <<>>]

\* hash % table.size()
BucketIndex(e, tb) == Hash(e) % Len(tb)

RECURSIVE Flatten(_)
\* the entries of a table in the order the rehash loops visit them
Flatten(tb) == IF tb = <<>> THEN <<>> ELSE Head(tb) \o Flatten(Tail(tb))

\* (mutation) the new index is taken modulo the old capacity
KeepsBucketOld(e, j, new_capacity) ==
    Hash(e) % (IF new_capacity > 1 THEN new_capacity \div 2 ELSE 1) = j - 1

KeepsBucket(e, j, new_capacity) == Hash(e) % new_capacity = j - 1

\* (mutation) the new table is the old one with empty buckets added: nothing
\* is rehashed
RehashInPlace(tb, new_capacity) == tb \o EmptyTable(new_capacity - Len(tb))

\* (mutation) the rehash loops skip the first entry they visit
RehashLossy(tb, new_capacity) ==
    [j \in 1..new_capacity |->
        SelectSeq(IF Flatten(tb) = <<>> THEN <<>> ELSE Tail(Flatten(tb)),
                  LAMBDA e : KeepsBucket(e, j, new_capacity))]

\* the rehash loops: every entry, in visiting order, is pushed to the back of
\* bucket hash % new_capacity of a fresh table
Rehash(tb, new_capacity) ==
    [j \in 1..new_capacity |->
        SelectSeq(Flatten(tb), LAMBDA e : KeepsBucket(e, j, new_capacity))]

\* (mutation) the new entry replaces the bucket
PushBackOver(tb, index, e) == [tb EXCEPT ![index + 1] = <<e>>]

PushBack(tb, index, e) == [tb EXCEPT ![index + 1] = Append(@, e)]

EraseAt(tb, index, k) == [tb EXCEPT ![index + 1] = Erase(@, k)]

\* the entries of a table as a bag (element -> number of occurrences)
RECURSIVE CountIn(_, _)
CountIn(s, e) == IF s = <<>> THEN 0
                 ELSE (IF Head(s) = e THEN 1 ELSE 0) + CountIn(Tail(s), e)

Members(tb) == {Flatten(tb)[k] : k \in 1..Len(Flatten(tb))}

Entries(tb) == Len(Flatten(tb))

\* ------------------------------------------------------------------- state
VARIABLES
    variant,     \* the set the threads of this run call into
    seqset,      \* HashSetSequential: table_, size_
    strset,      \* HashSetStriped: table_, locks_, resize_mutex_, size_
    refset,      \* HashSetRefinable: the TableStates alive, state_, resize_mutex_, size_
    th,          \* per thread: the call in progress, its position and its locals
    calls,       \* per thread: calls invoked so far
    mon,         \* per element: the abstract sets and pending results its history allows
    work         \* the workload of the run

vars == <<variant, seqset, strset, refset, th, calls, mon, work>>

\* ------------------------------------------------------------ thread state

\* a thread between two calls; ret keeps the result of its last call
Idle == [pc |-> "idle", op |-> "none", elem |-> 0, ret |-> FALSE,
         index |-> 0, state |-> NoState, i |-> 0, new_table |-> <<>>]

\* the thread's record once its call has returned v: the locals are gone
Returned(t, v) == [Idle EXCEPT !.ret = v]

\* ---- the history of the calls on one element, kept as the set of abstract
\* ---- states it is consistent with.  A configuration is the abstract
\* ---- membership p of the element and, per thread, whether its pending call
\* ---- on the element has not taken effect yet ("wait") or has, with which
\* ---- result.  A call may take effect at any moment between its invocation
\* ---- and its return: the set is closed under letting a waiting call take
\* ---- effect, and a return keeps the configurations that predicted its value.
AbsResult(p, op) == CASE op = "Add" -> ~p
                      [] op = "Remove" -> p
                      [] op = "Contains" -> p

AbsPresent(p, op) == CASE op = "Add" -> TRUE
                       [] op = "Remove" -> FALSE
                       [] op = "Contains" -> p

Shown(v) == IF v THEN "true" ELSE "false"

TakeEffect(c, u, op) ==
    [p |-> AbsPresent(c.p, op),
     r |-> [c.r EXCEPT ![u] = Shown(AbsResult(c.p, op))]]

Waiting(c) == {u \in DOMAIN c.r : c.r[u] = "wait"}

RECURSIVE Closure(_, _)
Closure(C, ops) ==
    LET D == C \cup UNION {{TakeEffect(c, u, ops[u]) : u \in Waiting(c)} : c \in C}
    IN  IF D = C THEN C ELSE Closure(D, ops)

MonInvoked(t, op, e) ==
    IF e \in DOMAIN mon
    THEN [mon EXCEPT ![e] = Closure({[c EXCEPT !.r[t] = "wait"] : c \in @},
                                    [u \in DOMAIN th |->
                                        IF u = t THEN op ELSE th[u].op])]
    ELSE mon

\* the histories, once the call of t has returned v
MonAfter(t, v) ==
    IF th[t].elem \in DOMAIN mon
    THEN [mon EXCEPT ![th[t].elem] =
              {[c EXCEPT !.r[t] = "idle"] : c \in {d \in @ : d.r[t] = Shown(v)}}]
    ELSE mon

\* (mutation) the mutexes stay locked
ReleaseNothing(locks, t) == locks

\* ~unique_lock: the mutexes the thread holds are unlocked
Release(locks, t) == [j \in 1..Len(locks) |->
                         IF locks[j] = t THEN NoThread ELSE locks[j]]

\* (mutation) the mutex is not taken
AcquireNothing(locks, index, t) == locks

Acquire(locks, index, t) == [locks EXCEPT ![index + 1] = t]

\* ------------------------------------------------------ HashSetSequential

SeqWouldResize(size, tb) == size > kLoadFactorThreshold * Len(tb)

SeqNewCapacity(tb) == Len(tb) * 2

SeqResized(tb) == Rehash(tb, SeqNewCapacity(tb))

SeqAddFound(tb, e) == Find(tb[BucketIndex(e, tb) + 1], e)

SeqRemovePos(tb, e) == RemovePos(tb[BucketIndex(e, tb) + 1], e)

SeqContainsFound(tb, e) == Find(tb[BucketIndex(e, tb) + 1], e)

\* (mutation) the counter is not decremented
SizeKept(n) == n

\* --size_ on a size_t; the counter is kept as a mathematical integer, so that
\* a decrement of 0, which would wrap around to SIZE_MAX, shows as -1
SizeDec(n) == n - 1

\* what the call returns
SeqResult(s, op, e) ==
    CASE op = "Add" -> ~SeqAddFound(s.table_, e)
      [] op = "Remove" -> SeqRemovePos(s.table_, e) # 0
      [] op = "Contains" -> SeqContainsFound(s.table_, e)

\* bucket.push_back(elem); ++size_
SeqAfterAdd(s, e) ==
    IF SeqAddFound(s.table_, e) THEN s
    ELSE [table_ |-> PushBack(s.table_, BucketIndex(e, s.table_), e),
          size_ |-> s.size_ + 1]

\* bucket.erase(it); --size_
SeqAfterRemove(s, e) ==
    IF SeqRemovePos(s.table_, e) = 0 THEN s
    ELSE [table_ |-> EraseAt(s.table_, BucketIndex(e, s.table_),
                             SeqRemovePos(s.table_, e)),
          size_ |-> SizeDec(s.size_)]

\* the set when the call returns, or when Add enters Resize
SeqAfter(s, op, e) ==
    CASE op = "Add" -> SeqAfterAdd(s, e)
      [] op = "Remove" -> SeqAfterRemove(s, e)
      [] op = "Contains" -> s

\* Add, Remove or Contains of the sequential set, up to its return or, for an
\* Add that exceeds the load factor, up to its call of Resize
SeqRun(t) ==
    /\ variant = "sequential"
    /\ th[t].pc = "q_run"
    /\ seqset' = SeqAfter(seqset, th[t].op, th[t].elem)
    /\ IF /\ th[t].op = "Add"
          /\ ~SeqAddFound(seqset.table_, th[t].elem)
          /\ SeqWouldResize(seqset'.size_, seqset'.table_)
       THEN /\ th' = [th EXCEPT ![t].pc = "q_resize"]
            /\ UNCHANGED mon
       ELSE /\ th' = [th EXCEPT ![t] =
                          Returned(t, SeqResult(seqset, th[t].op, th[t].elem))]
            /\ mon' = MonAfter(t, SeqResult(seqset, th[t].op, th[t].elem))
    /\ UNCHANGED <<variant, strset, refset, calls, work>>

\* Resize(), and the return of the Add that called it
SeqResize(t) ==
    /\ variant = "sequential"
    /\ th[t].pc = "q_resize"
    /\ seqset' = [seqset EXCEPT !.table_ = SeqResized(@)]
    /\ th' = [th EXCEPT ![t] = Returned(t, TRUE)]
    /\ mon' = MonAfter(t, TRUE)
    /\ UNCHANGED <<variant, strset, refset, calls, work>>

SequentialStep(t) ==
    \/ SeqRun(t)
    \/ SeqResize(t)

\* --------------------------------------------------------- HashSetStriped

\* h % locks_.size()
LockIndex(e, locks) == Hash(e) % Len(locks)

\* (mutation) the resize starts when the load factor reaches the threshold
LoadFactorReached(s) == s.size_ >= kLoadFactorThreshold * Len(s.table_)

\* LoadFactor() > kLoadFactorThreshold: the quotient of two doubles exceeds 4.0
\* exactly when size_ > 4 * table_.size()
LoadFactorExceeded(s) == s.size_ > kLoadFactorThreshold * Len(s.table_)

\* (mutation) the table grows by one bucket
StrCapacityPlusOne(tb) == Len(tb) + 1

\* (mutation) the new table is as long as the old one
StrSameCapacity(tb) == Len(tb)

\* new_capacity = table_.size() * 2
StrNewCapacity(tb) == Len(tb) * 2

StrFirstPc(op) == CASE op = "Add" -> "s_add_scan"
                    [] op = "Remove" -> "s_rem_scan"
                    [] op = "Contains" -> "s_con_scan"

\* std::unique_lock / std::lock_guard on locks_[h % locks_.size()]
StrLock(t) ==
    /\ variant = "striped"
    /\ th[t].pc = "s_lock"
    /\ strset.locks_[LockIndex(th[t].elem, strset.locks_) + 1] = NoThread
    /\ strset' = [strset EXCEPT !.locks_ =
                      Acquire(@, LockIndex(th[t].elem, strset.locks_), t)]
    /\ th' = [th EXCEPT ![t].pc = StrFirstPc(th[t].op)]
    /\ UNCHANGED <<variant, seqset, refset, calls, mon, work>>

StrAddFound(tb, e) == Find(tb[BucketIndex(e, tb) + 1], e)

\* index = h % table_.size(); the duplicate check
StrAddScan(t) ==
    /\ variant = "striped"
    /\ th[t].pc = "s_add_scan"
    /\ IF StrAddFound(strset.table_, th[t].elem)
       THEN /\ strset' = [strset EXCEPT !.locks_ = Release(@, t)]
            /\ th' = [th EXCEPT ![t] = Returned(t, FALSE)]
            /\ mon' = MonAfter(t, FALSE)
       ELSE /\ th' = [th EXCEPT ![t].pc = "s_add_push",
                                ![t].index = BucketIndex(th[t].elem, strset.table_)]
            /\ UNCHANGED <<strset, mon>>
    /\ UNCHANGED <<variant, seqset, refset, calls, work>>

\* bucket.push_back(elem)
StrAddPush(t) ==
    /\ variant = "striped"
    /\ th[t].pc = "s_add_push"
    /\ strset' = [strset EXCEPT !.table_ = PushBack(@, th[t].index, th[t].elem)]
    /\ th' = [th EXCEPT ![t].pc = "s_add_inc"]
    /\ UNCHANGED <<variant, seqset, refset, calls, mon, work>>

\* ++size_
StrAddInc(t) ==
    /\ variant = "striped"
    /\ th[t].pc = "s_add_inc"
    /\ strset' = [strset EXCEPT !.size_ = @ + 1]
    /\ th' = [th EXCEPT ![t].pc = "s_add_lf"]
    /\ UNCHANGED <<variant, seqset, refset, calls, mon, work>>

\* (mutation) the shard stays locked
KeepLocked(locks, t) == locks

\* lock.unlock() before Resize()
UnlockForResize(locks, t) == Release(locks, t)

\* if (LoadFactor() > kLoadFactorThreshold) { lock.unlock(); Resize(); } return true;
StrAddLoadFactor(t) ==
    /\ variant = "striped"
    /\ th[t].pc = "s_add_lf"
    /\ IF LoadFactorExceeded(strset)
       THEN /\ strset' = [strset EXCEPT !.locks_ = UnlockForResize(@, t)]
            /\ th' = [th EXCEPT ![t].pc = "s_rs_mutex"]
            /\ UNCHANGED mon
       ELSE /\ strset' = [strset EXCEPT !.locks_ = Release(@, t)]
            /\ th' = [th EXCEPT ![t] = Returned(t, TRUE)]
            /\ mon' = MonAfter(t, TRUE)
    /\ UNCHANGED <<variant, seqset, refset, calls, work>>

\* std::unique_lock<std::mutex> resize_lock(resize_mutex_)
StrResizeMutex(t) ==
    /\ variant = "striped"
    /\ th[t].pc = "s_rs_mutex"
    /\ strset.resize_mutex_ = NoThread
    /\ strset' = [strset EXCEPT !.resize_mutex_ = t]
    /\ th' = [th EXCEPT ![t].pc = "s_rs_locks", ![t].i = 0]
    /\ UNCHANGED <<variant, seqset, refset, calls, mon, work>>

\* for (auto& m : locks_) all_locks.emplace_back(m): one shard per step
StrResizeLock(t) ==
    /\ variant = "striped"
    /\ th[t].pc = "s_rs_locks"
    /\ strset.locks_[th[t].i + 1] = NoThread
    /\ strset' = [strset EXCEPT !.locks_ = Acquire(@, th[t].i, t)]
    /\ th' = [th EXCEPT ![t].i = @ + 1,
                        ![t].pc = IF th[t].i + 1 = Len(strset.locks_)
                                  THEN "s_rs_check" ELSE "s_rs_locks"]
    /\ UNCHANGED <<variant, seqset, refset, calls, mon, work>>

\* if (LoadFactor() <= kLoadFactorThreshold) return;
StrResizeCheck(t) ==
    /\ variant = "striped"
    /\ th[t].pc = "s_rs_check"
    /\ IF ~LoadFactorExceeded(strset)
       THEN /\ strset' = [strset EXCEPT !.locks_ = Release(@, t),
                                        !.resize_mutex_ = NoThread]
            /\ th' = [th EXCEPT ![t] = Returned(t, TRUE)]
            /\ mon' = MonAfter(t, TRUE)
       ELSE /\ th' = [th EXCEPT ![t].pc = "s_rs_rehash"]
            /\ UNCHANGED <<strset, mon>>
    /\ UNCHANGED <<variant, seqset, refset, calls, work>>

\* (mutation) the table is lengthened and its entries stay where they were
StrResizedInPlace(tb) == tb \o EmptyTable(Len(tb))

StrResized(tb) == Rehash(tb, StrNewCapacity(tb))

\* the rehash loops fill new_table
StrResizeRehash(t) ==
    /\ variant = "striped"
    /\ th[t].pc = "s_rs_rehash"
    /\ th' = [th EXCEPT ![t].pc = "s_rs_swap",
                        ![t].new_table = StrResized(strset.table_)]
    /\ UNCHANGED <<variant, seqset, strset, refset, calls, mon, work>>

\* table_.swap(new_table); Resize returns and releases every lock; Add returns true
StrResizeSwap(t) ==
    /\ variant = "striped"
    /\ th[t].pc = "s_rs_swap"
    /\ strset' = [strset EXCEPT !.table_ = th[t].new_table,
                                !.locks_ = Release(@, t),
                                !.resize_mutex_ = NoThread]
    /\ th' = [th EXCEPT ![t] = Returned(t, TRUE)]
    /\ mon' = MonAfter(t, TRUE)
    /\ UNCHANGED <<variant, seqset, refset, calls, work>>

StrRemovePos(tb, e) == RemovePos(tb[BucketIndex(e, tb) + 1], e)

\* index = h % table_.size(); the loop that looks for elem
StrRemoveScan(t) ==
    /\ variant = "striped"
    /\ th[t].pc = "s_rem_scan"
    /\ IF StrRemovePos(strset.table_, th[t].elem) # 0
       THEN /\ th' = [th EXCEPT ![t].pc = "s_rem_erase",
                                ![t].index = BucketIndex(th[t].elem, strset.table_),
                                ![t].i = StrRemovePos(strset.table_, th[t].elem)]
            /\ UNCHANGED <<strset, mon>>
       ELSE /\ strset' = [strset EXCEPT !.locks_ = Release(@, t)]
            /\ th' = [th EXCEPT ![t] = Returned(t, FALSE)]
            /\ mon' = MonAfter(t, FALSE)
    /\ UNCHANGED <<variant, seqset, refset, calls, work>>

\* bucket.erase(it)
StrRemoveErase(t) ==
    /\ variant = "striped"
    /\ th[t].pc = "s_rem_erase"
    /\ strset' = [strset EXCEPT !.table_ = EraseAt(@, th[t].index, th[t].i)]
    /\ th' = [th EXCEPT ![t].pc = "s_rem_dec"]
    /\ UNCHANGED <<variant, seqset, refset, calls, mon, work>>

\* --size_; return true
StrRemoveDec(t) ==
    /\ variant = "striped"
    /\ th[t].pc = "s_rem_dec"
    /\ strset' = [strset EXCEPT !.size_ = SizeDec(@), !.locks_ = Release(@, t)]
    /\ th' = [th EXCEPT ![t] = Returned(t, TRUE)]
    /\ mon' = MonAfter(t, TRUE)
    /\ UNCHANGED <<variant, seqset, refset, calls, work>>

StrContainsFound(tb, e) == Find(tb[BucketIndex(e, tb) + 1], e)

\* Contains: the scan under the shard, and the return
StrContainsScan(t) ==
    /\ variant = "striped"
    /\ th[t].pc = "s_con_scan"
    /\ strset' = [strset EXCEPT !.locks_ = Release(@, t)]
    /\ th' = [th EXCEPT ![t] = Returned(t, StrContainsFound(strset.table_, th[t].elem))]
    /\ mon' = MonAfter(t, StrContainsFound(strset.table_, th[t].elem))
    /\ UNCHANGED <<variant, seqset, refset, calls, work>>

StripedStep(t) ==
    \/ StrLock(t)
    \/ StrAddScan(t)
    \/ StrAddPush(t)
    \/ StrAddInc(t)
    \/ StrAddLoadFactor(t)
    \/ StrResizeMutex(t)
    \/ StrResizeLock(t)
    \/ StrResizeCheck(t)
    \/ StrResizeRehash(t)
    \/ StrResizeSwap(t)
    \/ StrRemoveScan(t)
    \/ StrRemoveErase(t)
    \/ StrRemoveDec(t)
    \/ StrContainsScan(t)

\* ------------------------------------------------------- HashSetRefinable

\* a TableState whose last shared_ptr is gone
Freed == [buckets |-> <<>>, locks |-> <<>>]

\* TableState(capacity): the constructor's empty buckets and unlocked mutexes
TableState(buckets) == [buckets |-> buckets,
                        locks |-> [j \in 1..Len(buckets) |-> NoThread]]

\* the TableStates some shared_ptr refers to: state_ and the threads' locals
Referenced(r, thr) == {r.state_} \cup {thr[t].state : t \in Threads}

\* shared_ptr: a TableState is destroyed when the last reference to it is dropped
Collect(r, thr) ==
    [r EXCEPT !.heap = [s \in 1..Len(r.heap) |->
                           IF s \in Referenced(r, thr) THEN r.heap[s] ELSE Freed]]

Deref(s) == refset.heap[s]

RefNewCapacity(tb) == Len(tb) * 4

RefFirstPc(op) == CASE op = "Add" -> "r_add_scan"
                    [] op = "Remove" -> "r_rem_scan"
                    [] op = "Contains" -> "r_con_scan"

\* (mutation) the re-validation is skipped
ValidatedAlways(local, published) == TRUE

\* state != std::atomic_load(&state_) is false
Validated(local, published) == local = published

\* the threshold test of Add and MaybeResize against a TableState's capacity
RefExceeds(size, tb) == size > kLoadFactorThreshold * Len(tb)

\* auto state = std::atomic_load(&state_); index = BucketIndex(elem, *state)
RefLoad(t) ==
    /\ variant = "refinable"
    /\ th[t].pc = "r_load"
    /\ th' = [th EXCEPT ![t].pc = "r_lock",
                        ![t].state = refset.state_,
                        ![t].index = BucketIndex(th[t].elem,
                                                 Deref(refset.state_).buckets)]
    /\ UNCHANGED <<variant, seqset, strset, refset, calls, mon, work>>

\* std::unique_lock<std::mutex> bucket_lock(state->locks[index])
RefLock(t) ==
    /\ variant = "refinable"
    /\ th[t].pc = "r_lock"
    /\ Deref(th[t].state).locks[th[t].index + 1] = NoThread
    /\ refset' = [refset EXCEPT !.heap[th[t].state].locks =
                      Acquire(@, th[t].index, t)]
    /\ th' = [th EXCEPT ![t].pc = "r_validate"]
    /\ UNCHANGED <<variant, seqset, strset, calls, mon, work>>

\* if (state != std::atomic_load(&state_)) continue;
RefValidate(t) ==
    /\ variant = "refinable"
    /\ th[t].pc = "r_validate"
    /\ IF Validated(th[t].state, refset.state_)
       THEN /\ th' = [th EXCEPT ![t].pc = RefFirstPc(th[t].op)]
            /\ UNCHANGED refset
       ELSE /\ th' = [th EXCEPT ![t].pc = "r_load", ![t].state = NoState,
                                ![t].index = 0]
            /\ refset' = Collect([refset EXCEPT !.heap[th[t].state].locks =
                                      Release(@, t)], th')
    /\ UNCHANGED <<variant, seqset, strset, calls, mon, work>>

RefAddFound(tb, index, e) == Find(tb[index + 1], e)

\* the duplicate check of Add
RefAddScan(t) ==
    /\ variant = "refinable"
    /\ th[t].pc = "r_add_scan"
    /\ IF RefAddFound(Deref(th[t].state).buckets, th[t].index, th[t].elem)
       THEN /\ th' = [th EXCEPT ![t] = Returned(t, FALSE)]
            /\ refset' = Collect([refset EXCEPT !.heap[th[t].state].locks =
                                      Release(@, t)], th')
            /\ mon' = MonAfter(t, FALSE)
       ELSE /\ th' = [th EXCEPT ![t].pc = "r_add_push"]
            /\ UNCHANGED <<refset, mon>>
    /\ UNCHANGED <<variant, seqset, strset, calls, work>>

\* bucket.push_back(elem)
RefAddPush(t) ==
    /\ variant = "refinable"
    /\ th[t].pc = "r_add_push"
    /\ refset' = [refset EXCEPT !.heap[th[t].state].buckets =
                      PushBack(@, th[t].index, th[t].elem)]
    /\ th' = [th EXCEPT ![t].pc = "r_add_inc"]
    /\ UNCHANGED <<variant, seqset, strset, calls, mon, work>>

\* new_size = size_.fetch_add(1) + 1; should_resize; bucket_lock.unlock();
\* without should_resize: return true
RefAddInc(t) ==
    /\ variant = "refinable"
    /\ th[t].pc = "r_add_inc"
    /\ IF RefExceeds(refset.size_ + 1, Deref(th[t].state).buckets)
       THEN /\ th' = [th EXCEPT ![t].pc = "r_mr_check1"]
            /\ refset' = [refset EXCEPT !.size_ = @ + 1,
                                        !.heap[th[t].state].locks = Release(@, t)]
            /\ UNCHANGED mon
       ELSE /\ th' = [th EXCEPT ![t] = Returned(t, TRUE)]
            /\ refset' = Collect([refset EXCEPT !.size_ = @ + 1,
                                      !.heap[th[t].state].locks = Release(@, t)], th')
            /\ mon' = MonAfter(t, TRUE)
    /\ UNCHANGED <<variant, seqset, strset, calls, work>>

\* MaybeResize: if (size_.load() <= kLoadFactorThreshold * expected_state->buckets.size()) return;
RefMaybeCheck1(t) ==
    /\ variant = "refinable"
    /\ th[t].pc = "r_mr_check1"
    /\ IF RefExceeds(refset.size_, Deref(th[t].state).buckets)
       THEN /\ th' = [th EXCEPT ![t].pc = "r_mr_try"]
            /\ UNCHANGED <<refset, mon>>
       ELSE /\ th' = [th EXCEPT ![t] = Returned(t, TRUE)]
            /\ refset' = Collect(refset, th')
            /\ mon' = MonAfter(t, TRUE)
    /\ UNCHANGED <<variant, seqset, strset, calls, work>>

\* (mutation) the resize mutex is locked, not tried: the thread waits for it
RefMaybeLockWait(t) ==
    /\ variant = "refinable"
    /\ th[t].pc = "r_mr_try"
    /\ refset.resize_mutex_ = NoThread
    /\ th' = [th EXCEPT ![t].pc = "r_mr_load"]
    /\ refset' = [refset EXCEPT !.resize_mutex_ = t]
    /\ UNCHANGED <<variant, seqset, strset, calls, mon, work>>

\* resize_guard(resize_mutex_, std::try_to_lock); if (!resize_guard.owns_lock()) return;
RefMaybeTryLock(t) ==
    /\ variant = "refinable"
    /\ th[t].pc = "r_mr_try"
    /\ IF refset.resize_mutex_ = NoThread
       THEN /\ th' = [th EXCEPT ![t].pc = "r_mr_load"]
            /\ refset' = [refset EXCEPT !.resize_mutex_ = t]
            /\ UNCHANGED mon
       ELSE /\ th' = [th EXCEPT ![t] = Returned(t, TRUE)]
            /\ refset' = Collect(refset, th')
            /\ mon' = MonAfter(t, TRUE)
    /\ UNCHANGED <<variant, seqset, strset, calls, work>>

\* current_state = std::atomic_load(&state_); if (current_state != expected_state) return;
RefMaybeLoad(t) ==
    /\ variant = "refinable"
    /\ th[t].pc = "r_mr_load"
    /\ IF refset.state_ = th[t].state
       THEN /\ th' = [th EXCEPT ![t].pc = "r_mr_check2"]
            /\ UNCHANGED <<refset, mon>>
       ELSE /\ th' = [th EXCEPT ![t] = Returned(t, TRUE)]
            /\ refset' = Collect([refset EXCEPT !.resize_mutex_ = NoThread], th')
            /\ mon' = MonAfter(t, TRUE)
    /\ UNCHANGED <<variant, seqset, strset, calls, work>>

\* if (size_.load() <= kLoadFactorThreshold * current_state->buckets.size()) return;
RefMaybeCheck2(t) ==
    /\ variant = "refinable"
    /\ th[t].pc = "r_mr_check2"
    /\ IF RefExceeds(refset.size_, Deref(th[t].state).buckets)
       THEN /\ th' = [th EXCEPT ![t].pc = "r_mr_locks", ![t].i = 0]
            /\ UNCHANGED <<refset, mon>>
       ELSE /\ th' = [th EXCEPT ![t] = Returned(t, TRUE)]
            /\ refset' = Collect([refset EXCEPT !.resize_mutex_ = NoThread], th')
            /\ mon' = MonAfter(t, TRUE)
    /\ UNCHANGED <<variant, seqset, strset, calls, work>>

\* for (auto& lock : current_state->locks) locked_buckets.emplace_back(lock)
RefMaybeLock(t) ==
    /\ variant = "refinable"
    /\ th[t].pc = "r_mr_locks"
    /\ Deref(th[t].state).locks[th[t].i + 1] = NoThread
    /\ refset' = [refset EXCEPT !.heap[th[t].state].locks = Acquire(@, th[t].i, t)]
    /\ th' = [th EXCEPT ![t].i = @ + 1,
                        ![t].pc = IF th[t].i + 1 = Len(Deref(th[t].state).locks)
                                  THEN "r_mr_rehash" ELSE "r_mr_locks"]
    /\ UNCHANGED <<variant, seqset, strset, calls, mon, work>>

RefResized(tb) == Rehash(tb, RefNewCapacity(tb))

\* new_state = make_shared<TableState>(new_capacity) and the rehash loops
RefMaybeRehash(t) ==
    /\ variant = "refinable"
    /\ th[t].pc = "r_mr_rehash"
    /\ th' = [th EXCEPT ![t].pc = "r_mr_publish",
                        ![t].new_table = RefResized(Deref(th[t].state).buckets)]
    /\ UNCHANGED <<variant, seqset, strset, refset, calls, mon, work>>

\* std::atomic_store(&state_, new_state)
RefMaybePublish(t) ==
    /\ variant = "refinable"
    /\ th[t].pc = "r_mr_publish"
    /\ refset' = [refset EXCEPT !.heap = Append(@, TableState(th[t].new_table)),
                                !.state_ = Len(refset.heap) + 1]
    /\ th' = [th EXCEPT ![t].pc = "r_mr_release", ![t].new_table = <<>>]
    /\ UNCHANGED <<variant, seqset, strset, calls, mon, work>>

\* MaybeResize returns: locked_buckets and resize_guard unlock; Add returns true
RefMaybeRelease(t) ==
    /\ variant = "refinable"
    /\ th[t].pc = "r_mr_release"
    /\ th' = [th EXCEPT ![t] = Returned(t, TRUE)]
    /\ refset' = Collect([refset EXCEPT !.heap[th[t].state].locks = Release(@, t),
                                        !.resize_mutex_ = NoThread], th')
    /\ mon' = MonAfter(t, TRUE)
    /\ UNCHANGED <<variant, seqset, strset, calls, work>>

RefRemovePos(tb, index, e) == RemovePos(tb[index + 1], e)

\* the loop of Remove that looks for elem
RefRemoveScan(t) ==
    /\ variant = "refinable"
    /\ th[t].pc = "r_rem_scan"
    /\ IF RefRemovePos(Deref(th[t].state).buckets, th[t].index, th[t].elem) # 0
       THEN /\ th' = [th EXCEPT ![t].pc = "r_rem_erase",
                                ![t].i = RefRemovePos(Deref(th[t].state).buckets,
                                                      th[t].index, th[t].elem)]
            /\ UNCHANGED <<refset, mon>>
       ELSE /\ th' = [th EXCEPT ![t] = Returned(t, FALSE)]
            /\ refset' = Collect([refset EXCEPT !.heap[th[t].state].locks =
                                      Release(@, t)], th')
            /\ mon' = MonAfter(t, FALSE)
    /\ UNCHANGED <<variant, seqset, strset, calls, work>>

\* bucket.erase(it)
RefRemoveErase(t) ==
    /\ variant = "refinable"
    /\ th[t].pc = "r_rem_erase"
    /\ refset' = [refset EXCEPT !.heap[th[t].state].buckets =
                      EraseAt(@, th[t].index, th[t].i)]
    /\ th' = [th EXCEPT ![t].pc = "r_rem_dec"]
    /\ UNCHANGED <<variant, seqset, strset, calls, mon, work>>

\* size_.fetch_sub(1); return true
RefRemoveDec(t) ==
    /\ variant = "refinable"
    /\ th[t].pc = "r_rem_dec"
    /\ th' = [th EXCEPT ![t] = Returned(t, TRUE)]
    /\ refset' = Collect([refset EXCEPT !.size_ = SizeDec(@),
                              !.heap[th[t].state].locks = Release(@, t)], th')
    /\ mon' = MonAfter(t, TRUE)
    /\ UNCHANGED <<variant, seqset, strset, calls, work>>

RefContainsFound(tb, index, e) == Find(tb[index + 1], e)

\* Contains: the scan under the bucket's mutex, and the return
RefContainsScan(t) ==
    /\ variant = "refinable"
    /\ th[t].pc = "r_con_scan"
    /\ th' = [th EXCEPT ![t] = Returned(t,
                  RefContainsFound(Deref(th[t].state).buckets, th[t].index, th[t].elem))]
    /\ refset' = Collect([refset EXCEPT !.heap[th[t].state].locks = Release(@, t)], th')
    /\ mon' = MonAfter(t,
                  RefContainsFound(Deref(th[t].state).buckets, th[t].index, th[t].elem))
    /\ UNCHANGED <<variant, seqset, strset, calls, work>>

RefinableStep(t) ==
    \/ RefLoad(t)
    \/ RefLock(t)
    \/ RefValidate(t)
    \/ RefAddScan(t)
    \/ RefAddPush(t)
    \/ RefAddInc(t)
    \/ RefMaybeCheck1(t)
    \/ RefMaybeTryLock(t)
    \/ RefMaybeLoad(t)
    \/ RefMaybeCheck2(t)
    \/ RefMaybeLock(t)
    \/ RefMaybeRehash(t)
    \/ RefMaybePublish(t)
    \/ RefMaybeRelease(t)
    \/ RefRemoveScan(t)
    \/ RefRemoveErase(t)
    \/ RefRemoveDec(t)
    \/ RefContainsScan(t)

\* ---------------------------------------------------------------- workloads

\* where a call of the set under test starts
FirstPc(v) == CASE v = "sequential" -> "q_run"
                [] v = "striped" -> "s_lock"
                [] v = "refinable" -> "r_load"

\* the constructors: HashSetSequential(c), HashSetStriped(c), HashSetRefinable(c)
NewSequential(c) == [table_ |-> EmptyTable(c), size_ |-> 0]

NewStriped(c) == [table_ |-> EmptyTable(c),
                  locks_ |-> [j \in 1..c |-> NoThread],
                  resize_mutex_ |-> NoThread,
                  size_ |-> 0]

NewRefinable(c) == [heap |-> <<TableState(EmptyTable(c))>>,
                    state_ |-> 1,
                    resize_mutex_ |-> NoThread,
                    size_ |-> 0]

\* Size() of the three sets
SeqSize == seqset.size_

StrSize == strset.size_

RefSize == refset.size_

Invoke(t, v, op, e) ==
    /\ th[t].pc = "idle"
    /\ th' = [th EXCEPT ![t] = [Idle EXCEPT !.pc = FirstPc(v), !.op = op,
                                            !.elem = e]]
    /\ mon' = MonInvoked(t, op, e)
    /\ UNCHANGED <<seqset, strset, refset>>

\* a call of a worker, counted
Counted(t) == calls' = [calls EXCEPT ![t] = @ + 1]

\* K: the values are split into NumThreads ranges of the same length
RangeLen == TotalValues \div NumThreads

\* the elements the workers call with
Touched(w) ==
    CASE w.kind = "free" -> {w.fill, w.fill + 1}
      [] w.kind = "race" -> {w.fill}
      [] w.kind = "disjoint" -> 0..(NumThreads * RangeLen - 1)
      [] OTHER -> {}

\* the table is filled before the workers start: the first thread, alone,
\* adds 0, 1, ... work.fill - 1 in this order
Fill ==
    /\ work.kind \in {"free", "race", "disjoint"}
    /\ work.phase = "fill"
    /\ calls[1] < work.fill
    /\ Invoke(1, variant, "Add", calls[1])
    /\ Counted(1)
    /\ UNCHANGED <<variant, work>>

\* the workers start
Start ==
    /\ work.kind \in {"free", "race", "disjoint"}
    /\ work.phase = "fill"
    /\ calls[1] = work.fill
    /\ th[1].pc = "idle"
    /\ work' = [work EXCEPT !.phase = "run"]
    /\ th' = [t \in Threads |-> Idle]
    /\ calls' = [t \in Threads |-> 0]
    /\ mon' = [e \in Touched(work) |->
                  {[p |-> e < work.fill, r |-> [t \in Threads |-> "idle"]]}]
    /\ UNCHANGED <<variant, seqset, strset, refset>>

\* the sequential set is not thread-safe: one thread calls it
Callers == IF variant = "sequential" THEN {1} ELSE Threads

\* the workers of the free and of the race workload run the same code: they
\* are numbered in the order of their first calls
InTurn(t) == IF t = 1 THEN TRUE ELSE calls[t] > 0 \/ calls[t - 1] > 0

RECURSIVE Total(_, _)
Total(f, n) == IF n = 0 THEN 0 ELSE f[n] + Total(f, n - 1)

\* free workload: the workers make up to MaxCalls calls in all, each any
\* operation on one of the first two values that were not filled in
CallFree(t) ==
    /\ work.kind = "free"
    /\ work.phase = "run"
    /\ t \in Callers
    /\ InTurn(t)
    /\ Total(calls, NumThreads) < MaxCalls
    /\ \E op \in OpNames, e \in Touched(work) : Invoke(t, variant, op, e)
    /\ Counted(t)
    /\ UNCHANGED <<variant, work>>

\* race workload: every worker calls Add(x) once, for the same absent x
CallRace(t) ==
    /\ work.kind = "race"
    /\ work.phase = "run"
    /\ calls[t] = 0
    /\ InTurn(t)
    /\ Invoke(t, variant, "Add", work.fill)
    /\ Counted(t)
    /\ UNCHANGED <<variant, work>>

\* the k-th value (from 0) of the range of thread t
RangeValue(t, k) == (t - 1) * RangeLen + k

\* disjoint-ranges workload: thread t adds the RangeLen values of its range
CallDisjoint(t) ==
    /\ work.kind = "disjoint"
    /\ work.phase = "run"
    /\ calls[t] < RangeLen
    /\ Invoke(t, variant, "Add", RangeValue(t, calls[t]))
    /\ Counted(t)
    /\ UNCHANGED <<variant, work>>

NoWork == [kind |-> "none", phase |-> "fill", capacity |-> 0, fill |-> 0,
           op |-> "none", elem |-> 0,
           results |-> <<>>, count |-> 0, i |-> 0, exit |-> -1, printed |-> FALSE]

InitWith(kinds, variants, fills) ==
    /\ variant \in variants
    /\ \E c \in InitCaps :
          /\ seqset = NewSequential(c)
          /\ strset = NewStriped(c)
          /\ refset = NewRefinable(c)
          /\ \E k \in kinds, f \in fills :
                work = [NoWork EXCEPT !.kind = k, !.capacity = c,
                                      !.fill = IF f = 0 THEN 0
                                               ELSE kLoadFactorThreshold * c]
    /\ th = [t \in Threads |-> Idle]
    /\ calls = [t \in Threads |-> 0]
    /\ mon = <<>>

StripedAddStep(t) ==
    \/ StrLock(t)
    \/ StrAddScan(t)
    \/ StrAddPush(t)
    \/ StrAddInc(t)
    \/ StrAddLoadFactor(t)
    \/ StrResizeMutex(t)
    \/ StrResizeLock(t)
    \/ StrResizeCheck(t)
    \/ StrResizeRehash(t)
    \/ StrResizeSwap(t)

RefinableAddStep(t) ==
    \/ RefLoad(t)
    \/ RefLock(t)
    \/ RefValidate(t)
    \/ RefAddScan(t)
    \/ RefAddPush(t)
    \/ RefAddInc(t)
    \/ RefMaybeCheck1(t)
    \/ RefMaybeTryLock(t)
    \/ RefMaybeLoad(t)
    \/ RefMaybeCheck2(t)
    \/ RefMaybeLock(t)
    \/ RefMaybeRehash(t)
    \/ RefMaybePublish(t)
    \/ RefMaybeRelease(t)

Step(t) ==
    \/ SequentialStep(t)
    \/ StripedStep(t)
    \/ RefinableStep(t)

\* ---- free workload, the three sets
Init == InitWith({"free"}, Variants, {0, 1})

Next ==
    \/ Fill
    \/ Start
    \/ \E t \in Threads : CallFree(t)
    \/ \E t \in Threads : Step(t)

Spec == Init /\ [][Next]_vars

\* ---- race workload, the two concurrent sets
InitRace == InitWith({"race"}, {"striped", "refinable"}, {0, 1})

NextRace ==
    \/ Fill
    \/ Start
    \/ \E t \in Threads : CallRace(t)
    \/ \E t \in Threads : StripedAddStep(t)
    \/ \E t \in Threads : RefinableAddStep(t)

SpecRace == InitRace /\ [][NextRace]_vars

\* ---- disjoint-ranges workload, the two concurrent sets, initially empty
InitDisjoint == InitWith({"disjoint"}, {"striped", "refinable"}, {0})

NextDisjoint ==
    \/ Start
    \/ \E t \in Threads : CallDisjoint(t)
    \/ \E t \in Threads : StripedAddStep(t)
    \/ \E t \in Threads : RefinableAddStep(t)

SpecDisjoint == InitDisjoint /\ [][NextDisjoint]_vars

\* ---- single-threaded comparison: one thread makes the same call on the
\* ---- sequential, the striped and the refining set, one after the other
SingleElems(w) == {e \in (w.fill - 1)..(w.fill + SingleLen - 2) : e >= 0}

\* the next call of the sequence starts, on the sequential set: while the
\* tables are being filled Add of the next value, then any call
SingleCall ==
    /\ work.kind = "single"
    /\ th[1].pc = "idle"
    /\ work.op = "none" \/ Len(work.results) = 3
    /\ \E op \in OpNames, e \in SingleElems(work) \cup {work.i} :
          /\ IF work.i < work.fill THEN op = "Add" /\ e = work.i
                                   ELSE e \in SingleElems(work)
          /\ work' = [work EXCEPT !.op = op, !.elem = e, !.results = <<>>,
                                  !.i = IF work.i < work.fill THEN @ + 1 ELSE @,
                                  !.phase = IF work.i < work.fill THEN "fill" ELSE "run"]
          /\ variant' = "sequential"
          /\ Invoke(1, "sequential", op, e)
          /\ UNCHANGED calls

NextVariant(v) == IF v = "sequential" THEN "striped" ELSE "refinable"

\* the call has returned from one set and is made on the next one
SingleFollow ==
    /\ work.kind = "single"
    /\ th[1].pc = "idle"
    /\ work.op # "none"
    /\ Len(work.results) < 2
    /\ variant # "refinable"
    /\ work' = [work EXCEPT !.results = Append(@, th[1].ret)]
    /\ variant' = NextVariant(variant)
    /\ Invoke(1, NextVariant(variant), work.op, work.elem)
    /\ UNCHANGED calls

\* the call has returned from the last of the three sets
SingleDone ==
    /\ work.kind = "single"
    /\ th[1].pc = "idle"
    /\ Len(work.results) = 2
    /\ variant = "refinable"
    /\ work' = [work EXCEPT !.results = Append(@, th[1].ret)]
    /\ UNCHANGED <<variant, seqset, strset, refset, th, calls, mon>>

InitSingle == InitWith({"single"}, {"sequential"}, {0, 1})

NextSingle ==
    \/ SingleCall
    \/ SingleFollow
    \/ SingleDone
    \/ Step(1)

SpecSingle == InitSingle /\ [][NextSingle]_vars

\* ---- the harness: main(argc, argv) with argv = {initial_capacity, count}

\* for (i = 0; i < count; i++) sequential_set.Add(i)
HarnessAdd ==
    /\ work.phase = "h_insert"
    /\ work.i < work.count
    /\ work' = [work EXCEPT !.i = @ + 1]
    /\ Invoke(1, variant, "Add", work.i)
    /\ UNCHANGED <<variant, calls>>

\* if (sequential_set.Size() != count) return 1;
HarnessInserted ==
    /\ work.phase = "h_insert"
    /\ work.i = work.count
    /\ th[1].pc = "idle"
    /\ work' = IF SeqSize # work.count
               THEN [work EXCEPT !.phase = "h_exit", !.exit = 1]
               ELSE [work EXCEPT !.phase = "h_loop", !.i = 0]
    /\ UNCHANGED <<variant, seqset, strset, refset, th, calls, mon>>

\* the head of the second loop: the size message, then Contains(i)
HarnessLoop ==
    /\ work.phase = "h_loop"
    /\ work.i < work.count
    /\ work' = [work EXCEPT !.phase = "h_contains",
                            !.printed = @ \/ SeqSize # work.count - work.i]
    /\ Invoke(1, variant, "Contains", work.i)
    /\ UNCHANGED <<variant, calls>>

\* if (!Contains(expected_value)) return 1; sequential_set.Remove(expected_value)
HarnessContained ==
    /\ work.phase = "h_contains"
    /\ th[1].pc = "idle"
    /\ IF ~th[1].ret
       THEN /\ work' = [work EXCEPT !.phase = "h_exit", !.exit = 1]
            /\ UNCHANGED <<seqset, strset, refset, th, mon>>
       ELSE /\ work' = [work EXCEPT !.phase = "h_remove"]
            /\ Invoke(1, variant, "Remove", work.i)
    /\ UNCHANGED <<variant, calls>>

\* i++ of the second loop
HarnessRemoved ==
    /\ work.phase = "h_remove"
    /\ th[1].pc = "idle"
    /\ work' = [work EXCEPT !.phase = "h_loop", !.i = @ + 1]
    /\ UNCHANGED <<variant, seqset, strset, refset, th, calls, mon>>

\* if (sequential_set.Size() != 0) return 1; return 0;
HarnessFinal ==
    /\ work.phase = "h_loop"
    /\ work.i = work.count
    /\ work' = [work EXCEPT !.phase = "h_exit",
                            !.exit = IF SeqSize # 0 THEN 1 ELSE 0]
    /\ UNCHANGED <<variant, seqset, strset, refset, th, calls, mon>>

InitHarness ==
    /\ variant = "sequential"
    /\ \E c \in InitCaps :
          /\ seqset = NewSequential(c)
          /\ strset = NewStriped(c)
          /\ refset = NewRefinable(c)
          /\ \E n \in 0..MaxCount :
                work = [NoWork EXCEPT !.kind = "harness", !.phase = "h_insert",
                                      !.capacity = c, !.count = n]
    /\ th = [t \in Threads |-> Idle]
    /\ calls = [t \in Threads |-> 0]
    /\ mon = <<>>

NextHarness ==
    \/ HarnessAdd
    \/ HarnessInserted
    \/ HarnessLoop
    \/ HarnessContained
    \/ HarnessRemoved
    \/ HarnessFinal
    \/ SequentialStep(1)

SpecHarness == InitHarness /\ [][NextHarness]_vars

\* =================================================================== claims

\* the table, the size counter and a lookup of the set under test
CurTable == CASE variant = "sequential" -> seqset.table_
              [] variant = "striped" -> strset.table_
              [] variant = "refinable" -> Deref(refset.state_).buckets

CurSize == CASE variant = "sequential" -> SeqSize
             [] variant = "striped" -> StrSize
             [] variant = "refinable" -> RefSize

LookUp(v) ==
    CASE variant = "sequential" -> SeqContainsFound(seqset.table_, v)
      [] variant = "striped" -> StrContainsFound(strset.table_, v)
      [] variant = "refinable" ->
            RefContainsFound(CurTable, BucketIndex(v, CurTable), v)

\* the table has grown since the construction
Grown == Len(CurTable) > work.capacity

NotYetCalled == work.phase = "run" /\ \A t \in Threads : calls[t] = 0

RaceOver == /\ work.kind = "race"
            /\ work.phase = "run"
            /\ \A t \in Threads : calls[t] = 1 /\ th[t].pc = "idle"

\* C1: when the workers race on Add(x) for one x that is not in the set (the
\* size counter being the number of elements filled in), then once all have
\* returned exactly one of them has returned true and the size counter is 1
\* larger than before the race.
C1_RaceOnSameKey ==
    /\ (work.kind = "race" /\ NotYetCalled) =>
          CurSize = work.fill /\ work.fill \notin Members(CurTable)
    /\ RaceOver =>
          /\ Cardinality({t \in Threads : th[t].ret}) = 1
          /\ CurSize = work.fill + 1

\* the race is over and the winner's Add has grown the table meanwhile
C1_Witness == RaceOver /\ Grown

DisjointOver == /\ work.kind = "disjoint"
                /\ work.phase = "run"
                /\ \A t \in Threads : calls[t] = RangeLen /\ th[t].pc = "idle"

\* C2: once every thread has added the values of its range to the initially
\* empty set, Size() is T*K, every added value is found, and the table holds
\* T*K entries (none lost, none twice).
C2_DisjointInserts ==
    DisjointOver =>
       /\ CurSize = NumThreads * RangeLen
       /\ \A t \in Threads : \A k \in 0..(RangeLen - 1) : LookUp(RangeValue(t, k))
       /\ Entries(CurTable) = NumThreads * RangeLen

\* all ranges are in, and the refining set has published a larger table meanwhile
C2_Witness == DisjointOver /\ Grown /\ variant = "refinable"

C4_SingleThreadEquivalence ==
    (work.kind = "single" /\ Len(work.results) = 3) =>
       /\ work.results[1] = work.results[2]
       /\ work.results[1] = work.results[3]
       /\ Members(seqset.table_) = Members(strset.table_)
       /\ Members(seqset.table_) = Members(Deref(refset.state_).buckets)
       /\ SeqSize = StrSize /\ SeqSize = RefSize

\* a successful Remove has returned from the three sets, whose tables have
\* grown to different capacities
C4_Witness ==
    /\ work.kind = "single" /\ Len(work.results) = 3
    /\ work.op = "Remove" /\ work.results[1]
    /\ Len(seqset.table_) > work.capacity
    /\ Len(seqset.table_) # Len(Deref(refset.state_).buckets)

\* C5: the harness on the sequential set: after the N insertions Size() is N;
\* before the i-th removal Size() is N - i and Contains(i) returns true; after
\* the N removals Size() is 0 and none of the values is found; so no size
\* message is printed and the exit code is never 1.
C5_HarnessScenario ==
    work.kind = "harness" =>
       /\ (work.phase = "h_insert" /\ work.i = work.count /\ th[1].pc = "idle") =>
             SeqSize = work.count
       /\ (work.phase = "h_loop" /\ work.i < work.count) =>
             SeqSize = work.count - work.i
       /\ (work.phase = "h_contains" /\ th[1].pc = "idle") => th[1].ret
       /\ (work.phase = "h_loop" /\ work.i = work.count) =>
             /\ SeqSize = 0
             /\ \A v \in 0..(work.count - 1) : ~SeqContainsFound(seqset.table_, v)
       /\ work.exit # 1
       /\ ~work.printed

\* the harness has exited with 0 after the largest count, the table having
\* doubled more than once
C5_Witness ==
    /\ work.kind = "harness" /\ work.exit = 0
    /\ work.count = MaxCount
    /\ Len(seqset.table_) > 2 * work.capacity

\* the entries of a table as a bag: element -> number of occurrences
Multiset(tb) == [e \in Members(tb) |-> CountIn(Flatten(tb), e)]

\* the thread has built the larger table and has not installed it yet
Rebuilt(t) == th[t].pc \in {"s_rs_swap", "r_mr_publish"}

\* the thread is between the start of the rehash and the installation of the
\* larger table
Resizing(t) == th[t].pc \in {"q_resize", "s_rs_rehash", "r_mr_rehash"} \/ Rebuilt(t)

\* C6: a resize preserves the entries and the size: from the start of the
\* rehash to the installation of the new table, no step of any thread changes
\* the bag of entries of the set's table or the size counter, the new table
\* that has been built has the bag of entries of the old one, and the step
\* that installs it enlarges the capacity.
C6_ResizePreserves ==
    [][\A t \in Threads :
          /\ Resizing(t) =>
                /\ Multiset(CurTable') = Multiset(CurTable)
                /\ CurSize' = CurSize
          /\ Rebuilt(t) =>
                /\ Multiset(th[t].new_table) = Multiset(CurTable)
                /\ Len(th[t].new_table) > Len(CurTable)
          /\ (Resizing(t) /\ ~Resizing(t)') =>
                Len(CurTable') > Len(CurTable)]_vars

\* a larger table is ready to be installed, its entries spread over more than
\* one bucket, while a call of another thread is in progress
C6_Witness ==
    \E t, u \in Threads :
       /\ Rebuilt(t)
       /\ \E j, k \in 1..Len(th[t].new_table) :
             j # k /\ th[t].new_table[j] # <<>> /\ th[t].new_table[k] # <<>>
       /\ u # t /\ th[u].pc # "idle"

\* the thread's Add is about to look for its element
AtAddScan(t) == th[t].op = "Add" /\ th[t].pc \in {"q_run", "s_add_scan", "r_add_scan"}

\* C7: the step of Add(x) that looks for x, taken when x is in the table,
\* returns false and leaves the size counter, the capacity and the contents
\* of every bucket as they were.
C7_AddPresent ==
    [][\A t \in Threads :
          (AtAddScan(t) /\ th[t].elem \in Members(CurTable) /\ th'[t] # th[t]) =>
             /\ th'[t].pc = "idle" /\ ~th'[t].ret
             /\ CurSize' = CurSize
             /\ Len(CurTable') = Len(CurTable)
             /\ CurTable' = CurTable]_vars

\* an Add is about to look for an element that is in the table, which has
\* grown since the construction
C7_Witness ==
    \E t \in Threads :
       AtAddScan(t) /\ th[t].elem \in Members(CurTable) /\ Grown

\* the thread's Remove is about to look for its element
AtRemoveScan(t) ==
    th[t].op = "Remove" /\ th[t].pc \in {"q_run", "s_rem_scan", "r_rem_scan"}

\* C8: the step of Remove(x) that looks for x, taken when x is not in the
\* table, returns false and leaves the size counter and the entries as they
\* were.
C8_RemoveAbsent ==
    [][\A t \in Threads :
          (AtRemoveScan(t) /\ th[t].elem \notin Members(CurTable) /\ th'[t] # th[t]) =>
             /\ th'[t].pc = "idle" /\ ~th'[t].ret
             /\ CurSize' = CurSize
             /\ Members(CurTable') = Members(CurTable)
             /\ CurTable' = CurTable]_vars

\* a Remove is about to look for an element that is not in the table, in a
\* bucket that has other entries
C8_Witness ==
    \E t \in Threads :
       /\ AtRemoveScan(t) /\ th[t].elem \notin Members(CurTable)
       /\ CurTable[BucketIndex(th[t].elem, CurTable) + 1] # <<>>

\* the positions at which a call of the refining set reads or changes a bucket
RefBucketPcs == {"r_add_scan", "r_add_push", "r_add_inc",
                 "r_rem_scan", "r_rem_erase", "r_rem_dec", "r_con_scan"}

\* the TableStates that have been replaced
Superseded == {s \in 1..Len(refset.heap) : s # refset.state_}

\* C9: in the refining set a call reads and changes buckets only of the
\* TableState that is published, holding the mutex of the bucket; state_ is
\* replaced only by a thread that holds every mutex of the TableState it
\* replaces; and the buckets of a replaced TableState are never changed
\* again.
C9_SnapshotDiscipline ==
    [][variant = "refinable" =>
          /\ \A t \in Threads :
                th[t].pc \in RefBucketPcs =>
                   /\ th[t].state = refset.state_
                   /\ Deref(th[t].state).locks[th[t].index + 1] = t
          /\ refset'.state_ # refset.state_ =>
                \E t \in Threads :
                   /\ th[t].pc = "r_mr_publish"
                   /\ \A j \in 1..Len(Deref(refset.state_).locks) :
                         Deref(refset.state_).locks[j] = t
          /\ \A s \in Superseded :
                \/ refset'.heap[s].buckets = refset.heap[s].buckets
                \/ refset'.heap[s] = Freed]_vars

\* a thread has locked a bucket of the TableState it loaded, which has been
\* replaced since: its validation is about to fail
C9_Witness ==
    /\ variant = "refinable"
    /\ \E u \in Threads :
          /\ th[u].pc = "r_validate"
          /\ th[u].state \in Superseded
          /\ Deref(th[u].state).locks[th[u].index + 1] = u

\* the shards the thread holds
Held(t) == {j \in 1..Len(strset.locks_) : strset.locks_[j] = t}

\* some call is in progress and no thread can take a step
StripedStuck ==
    /\ \E t \in Threads : th[t].pc # "idle"
    /\ \A t \in Threads : ~ENABLED StripedStep(t)

\* the thread acquires shard j in this step
Acquires(t, j) == strset'.locks_[j] = t /\ strset.locks_[j] # t

\* C10: the striped set never deadlocks: while a call is in progress some
\* thread can take a step; a thread that waits for resize_mutex_ holds no
\* shard; and a thread that holds a shard acquires another one only if its
\* index is larger than the index of every shard it holds.
C10_StripedLockOrder ==
    /\ [](variant = "striped" =>
             /\ ~StripedStuck
             /\ \A t \in Threads : th[t].pc = "s_rs_mutex" => Held(t) = {})
    /\ [][variant = "striped" =>
             \A t \in Threads : \A j \in 1..Len(strset.locks_) :
                Acquires(t, j) => \A k \in Held(t) : k < j]_vars

\* a resizing thread holds more than one shard while another thread waits
\* for the shard of its element
C10_Witness ==
    /\ variant = "striped"
    /\ \E t, u \in Threads :
          /\ th[t].pc = "s_rs_rehash" /\ Cardinality(Held(t)) > 1
          /\ u # t /\ th[u].pc = "s_lock"

\* ---- free workload, the refining set alone
InitRefinable == InitWith({"free"}, {"refinable"}, {0, 1})

NextRefinable ==
    \/ Fill
    \/ Start
    \/ \E t \in Threads : CallFree(t)
    \/ \E t \in Threads : RefinableStep(t)

SpecRefinable == InitRefinable /\ [][NextRefinable]_vars

\* the bucket mutexes the thread holds, over every TableState alive
RefHeld(t) ==
    UNION {{<<s, j>> : j \in {k \in 1..Len(refset.heap[s].locks) :
                                refset.heap[s].locks[k] = t}} :
           s \in 1..Len(refset.heap)}

\* the positions of MaybeResize at which the thread owns resize_mutex_
RefResizePcs == {"r_mr_load", "r_mr_check2", "r_mr_locks", "r_mr_rehash",
                 "r_mr_publish", "r_mr_release"}

\* the try-lock of the thread finds resize_mutex_ taken
LosesTryLock(t) == th[t].pc = "r_mr_try" /\ refset.resize_mutex_ # NoThread

\* C11: in the refining set no thread waits for resize_mutex_: the thread
\* that is about to take it can always step, whether it is free or not; a
\* thread that is not resizing holds at most one bucket mutex; the owner of
\* resize_mutex_ is inside the MaybeResize of an Add, and a step of a Remove
\* or a Contains never changes it; and the step of an Add whose try-lock
\* fails returns true and changes neither state_, nor any TableState, nor the
\* size counter.
C11_TryLockOnly ==
    /\ [](\A t \in Threads :
            /\ th[t].pc = "r_mr_try" => ENABLED RefMaybeTryLock(t)
            /\ th[t].pc \notin RefResizePcs => Cardinality(RefHeld(t)) <= 1
            /\ refset.resize_mutex_ = t =>
                  th[t].op = "Add" /\ th[t].pc \in RefResizePcs)
    /\ [][\A t \in Threads :
            /\ (th[t].op \in {"Remove", "Contains"} /\ th'[t] # th[t]) =>
                  refset'.resize_mutex_ = refset.resize_mutex_
            /\ (LosesTryLock(t) /\ th'[t] # th[t]) =>
                  /\ th'[t].pc = "idle" /\ th'[t].ret
                  /\ refset'.state_ = refset.state_
                  /\ refset'.size_ = refset.size_
                  /\ refset'.resize_mutex_ = refset.resize_mutex_
                  /\ CurTable' = CurTable
                  /\ \A s \in 1..Len(refset.heap) :
                        refset'.heap[s] \in {refset.heap[s], Freed}]_vars

\* an Add that has inserted its element tries resize_mutex_ while another
\* Add, which owns it, holds every bucket mutex of the published TableState
C11_Witness ==
    /\ variant = "refinable"
    /\ \E t, u \in Threads :
          /\ LosesTryLock(t)
          /\ refset.resize_mutex_ = u
          /\ th[u].pc = "r_mr_rehash"
          /\ th[t].elem \in Members(CurTable)

\* ---- the refining set under callers that never stop: any thread may start
\* ---- another call whenever it is between two calls
CallAgain(t) ==
    /\ work.kind = "free"
    /\ work.phase = "run"
    /\ \E op \in OpNames, e \in Touched(work) : Invoke(t, variant, op, e)
    /\ UNCHANGED <<variant, calls, work>>

\* the threads start; the histories of the calls are not recorded
StartLive ==
    /\ work.phase = "fill"
    /\ calls[1] = work.fill
    /\ th[1].pc = "idle"
    /\ work' = [work EXCEPT !.phase = "run"]
    /\ th' = [t \in Threads |-> Idle]
    /\ UNCHANGED <<variant, seqset, strset, refset, calls, mon>>

NextLive ==
    \/ Fill
    \/ StartLive
    \/ \E t \in Threads : CallAgain(t)
    \/ \E t \in Threads : RefinableStep(t)

\* fair scheduling: a thread inside a call that can step does step, and a
\* thread that waits for a mutex that is free again and again gets it
FairRefinable ==
    \A t \in Threads :
       /\ WF_vars(RefinableStep(t))
       /\ SF_vars(RefLock(t))
       /\ SF_vars(RefMaybeLock(t))

SpecLive == InitRefinable /\ [][NextLive]_vars /\ FairRefinable

MidUpdate(t) == th[t].pc \in {"s_add_inc", "s_rem_dec", "r_add_inc", "r_rem_dec"}

\* C13: in the three sets, whenever no thread is between its change of a
\* bucket and its update of the size counter, the number of entries of the
\* current table (of the published TableState) is the size counter; and
\* otherwise the two differ by the updates that are still to come.
C13_EntriesEqualSize ==
    /\ (\A t \in Threads : ~MidUpdate(t)) => Entries(CurTable) = CurSize
    /\ Entries(CurTable) = CurSize
          + Cardinality({t \in Threads : th[t].pc \in {"s_add_inc", "r_add_inc"}})
          - Cardinality({t \in Threads : th[t].pc \in {"s_rem_dec", "r_rem_dec"}})

\* no thread is between a bucket and the counter: an Add has stored its
\* element and grown the table, and a Remove has found the entry it is about
\* to erase
C13_Witness ==
    /\ \A t \in Threads : ~MidUpdate(t)
    /\ \E t \in Threads : th[t].pc \in {"s_rem_erase", "r_rem_erase"}
    /\ Grown
    /\ Entries(CurTable) = work.fill + 1

\* no entry of the bucket occurs twice in it
NoDuplicate(bucket) ==
    \A j, k \in 1..Len(bucket) : bucket[j] = bucket[k] => j = k

\* C14: in the three sets no bucket of the current table (of the published
\* TableState) ever holds two equal entries; neither does the table a resize
\* is about to install.
C14_NoDuplicateEntries ==
    /\ \A j \in 1..Len(CurTable) : NoDuplicate(CurTable[j])
    /\ \A t \in Threads : Rebuilt(t) =>
          \A j \in 1..Len(th[t].new_table) : NoDuplicate(th[t].new_table[j])

\* two threads are inside an Add of the same element, one about to store it
\* in a bucket that holds other entries, the other still to look for it
C14_Witness ==
    \E t, u \in Threads :
       /\ t # u
       /\ th[t].op = "Add" /\ th[u].op = "Add" /\ th[t].elem = th[u].elem
       /\ th[t].pc \in {"s_add_push", "r_add_push"}
       /\ th[u].pc \in {"s_lock", "r_lock"}
       /\ Len(CurTable[BucketIndex(th[t].elem, CurTable) + 1]) > 1

\* every entry of the table is in the bucket its hash selects
WellPlaced(tb) ==
    \A j \in 1..Len(tb) : \A k \in 1..Len(tb[j]) :
       Hash(tb[j][k]) % Len(tb) = j - 1

\* C15: in the three sets every entry of the current table (of the published
\* TableState) is in the bucket whose index is its hash modulo the capacity,
\* in every state, the one right after a resize has replaced the table
\* included; the capacity is never zero.
C15_BucketIndexInvariant ==
    /\ Len(CurTable) > 0
    /\ WellPlaced(CurTable)

\* a resize has just replaced the table: the thread that did it has not
\* returned yet, and the entries are spread over several buckets
C15_Witness ==
    /\ Grown
    /\ \E t \in Threads : th[t].pc = "r_mr_release"
    /\ \E j, k \in 1..Len(CurTable) :
          j # k /\ CurTable[j] # <<>> /\ CurTable[k] # <<>>

\* ---- free workload, the striped set alone
InitStriped == InitWith({"free"}, {"striped"}, {0, 1})

NextStriped ==
    \/ Fill
    \/ Start
    \/ \E t \in Threads : CallFree(t)
    \/ \E t \in Threads : StripedStep(t)

SpecStriped == InitStriped /\ [][NextStriped]_vars

\* the thread is in Resize and holds every shard
Rehashing(t) == th[t].pc \in {"s_rs_check", "s_rs_rehash", "s_rs_swap"}

\* the thread is outside a call, or waits for the shard of its element
OutsideOrAtShard(u) == th[u].pc \in {"idle", "s_lock"}

\* the thread's Add has stored its element, has released its shard and waits
\* for resize_mutex_
AwaitsResize(u) == th[u].op = "Add" /\ th[u].pc = "s_rs_mutex" /\ Held(u) = {}

\* C16 as the spec states it: while a thread of the striped set holds every
\* shard in Resize, every other thread is outside a call or waits for the
\* shard of its element.
C16_Original ==
    \A t, u \in Threads : (Rehashing(t) /\ u # t) => OutsideOrAtShard(u)

\* C16, amended: while a thread of the striped set holds every shard in
\* Resize, no other thread scans or changes a bucket or reads the capacity:
\* every other thread is outside a call, waits for the shard of its element,
\* or is in an Add that has stored its element, has released its shard and
\* waits for resize_mutex_.
C16_StopTheWorld ==
    \A t \in Threads :
       Rehashing(t) =>
          /\ Held(t) = 1..Len(strset.locks_)
          /\ \A u \in Threads \ {t} : OutsideOrAtShard(u) \/ AwaitsResize(u)

\* a thread rehashes while another one waits for the shard of its element
C16_Witness ==
    \E t, u \in Threads :
       /\ th[t].pc = "s_rs_rehash" /\ u # t
       /\ th[u].pc = "s_lock" /\ th[u].op \in {"Remove", "Contains"}

\* C17 as the spec states it: the thread whose Add is at the load factor
\* check holds no shard.
C17_Original ==
    \A t \in Threads : th[t].pc = "s_add_lf" => Held(t) = {}

\* C17, amended: in the striped set Add checks the load factor while it
\* still holds the shard of its element; when size_ exceeds 4 times the
\* capacity it releases the shard and enters Resize, holding nothing, and
\* otherwise it returns true.
C17_LoadFactorUnderShard ==
    /\ [](\A t \in Threads :
            th[t].pc = "s_add_lf" =>
               Held(t) = {LockIndex(th[t].elem, strset.locks_) + 1})
    /\ [][\A t \in Threads :
            (th[t].pc = "s_add_lf" /\ th'[t] # th[t]) =>
               /\ Held(t)' = {}
               /\ UNCHANGED <<strset.table_, strset.size_>>
               /\ IF strset.size_ > kLoadFactorThreshold * Len(strset.table_)
                  THEN th'[t].pc = "s_rs_mutex"
                  ELSE th'[t].pc = "idle" /\ th'[t].ret]_vars

\* an Add is at its load factor check, the threshold exceeded, while another
\* call is in progress
C17_Witness ==
    \E t, u \in Threads :
       /\ th[t].pc = "s_add_lf" /\ LoadFactorExceeded(strset)
       /\ u # t /\ th[u].pc # "idle"

\* the positions at which a call of the striped set reads or changes a
\* bucket, or reads the capacity
StrBucketPcs == {"s_add_scan", "s_add_push", "s_add_inc", "s_add_lf",
                 "s_rem_scan", "s_rem_erase", "s_rem_dec", "s_con_scan"}

\* the shard over the bucket: bucket index modulo the number of shards
ShardOfBucket(index) == index % Len(strset.locks_)

\* C18: in the striped set the shard array keeps the length given at the
\* construction and the capacity is that length times a power of two; for
\* every element and every such capacity the bucket index modulo the number
\* of shards is the shard index; a thread that reads or changes a bucket
\* holds the shard over it; and no two threads are at the same bucket.
C18_BucketsUnderShards ==
    variant = "striped" =>
       /\ Len(strset.locks_) = work.capacity
       /\ \E k \in 0..MaxDoublings : Len(strset.table_) = work.capacity * 2^k
       /\ \A e \in 0..MaxElem :
             /\ ShardOfBucket(BucketIndex(e, strset.table_)) =
                   LockIndex(e, strset.locks_)
             /\ \A k \in 0..MaxDoublings :
                   ShardOfBucket(BucketIndex(e, EmptyTable(work.capacity * 2^k))) =
                      LockIndex(e, strset.locks_)
       /\ \A t \in Threads :
             th[t].pc \in StrBucketPcs =>
                strset.locks_[ShardOfBucket(BucketIndex(th[t].elem, strset.table_)) + 1] = t
       /\ \A t, u \in Threads :
             (t # u /\ th[t].pc \in StrBucketPcs /\ th[u].pc \in StrBucketPcs) =>
                BucketIndex(th[t].elem, strset.table_) #
                   BucketIndex(th[u].elem, strset.table_)

\* a call is at a bucket that the table got by growing: its index is not the
\* index of a shard
C18_Witness ==
    /\ variant = "striped"
    /\ \E t \in Threads :
          /\ th[t].pc \in StrBucketPcs
          /\ BucketIndex(th[t].elem, strset.table_) >= Len(strset.locks_)

\* no call is in progress
Quiescent == \A t \in Threads : th[t].pc = "idle"

Invoked == IF work.phase = "fill" THEN calls[1]
           ELSE work.fill + Total(calls, NumThreads)

\* the thread's Remove has erased its element and decrements the counter next
AtDecrement(t) == th[t].pc \in {"s_rem_dec", "r_rem_dec"}

\* the thread's Add has stored its element and increments the counter next
AtIncrement(t) == th[t].pc \in {"s_add_inc", "r_add_inc"}

\* C20: in the striped and in the refining set the size counter, kept as an
\* integer, is never negative (the unsigned counter of the code never wraps)
\* and never larger than the number of calls that could have added an
\* element; every decrement finds the counter at 1 or more, and is never
\* taken while the Add of the same element has still to increment it.
C20_SizeNeverWraps ==
    /\ [](variant # "sequential" => (CurSize >= 0 /\ CurSize <= Invoked))
    /\ [][variant # "sequential" =>
            \A t \in Threads :
               (AtDecrement(t) /\ th'[t] # th[t]) =>
                  /\ CurSize >= 1
                  /\ CurSize' = CurSize - 1
                  /\ \A u \in Threads :
                        AtIncrement(u) => th[u].elem # th[t].elem]_vars

\* the counter is 0 and an Add has stored its element without having counted
\* it yet, while a Remove of the same element waits for the mutex the Add holds
C20_Witness ==
    /\ variant # "sequential"
    /\ CurSize = 0
    /\ \E t, u \in Threads :
          /\ AtIncrement(t)
          /\ th[u].op = "Remove" /\ th[u].elem = th[t].elem
          /\ th[u].pc \in {"s_lock", "r_lock"}

====
